---- MODULE Spec2Model ----
(***************************************************************************)
(* ThaiWERMetric (src/ppocr/metrics/thai_wer_metric.py) and the external   *)
(* tokenizer tool it drives (src/tools/thai_tokenizer.py).                 *)
(*                                                                         *)
(* One aggregator instance, driven by one evaluation loop.  A text is a    *)
(* sequence of characters, a token is a sequence of characters.  A WER     *)
(* value is kept as an integer multiple of 1/WerScale, and a returned      *)
(* metric (a quotient by all_num + eps) as an exact fraction <<n, d>> in   *)
(* lowest terms.                                                           *)
(***************************************************************************)
EXTENDS Integers, Sequences, FiniteSets, TLC

VARIABLES
    enabled,        \* self.enabled
    engines,        \* self.engines (a list: order and repetitions kept)
    wer_totals,     \* self.wer_totals, scaled by WerScale
    wer_samples,    \* self.wer_samples, each sample scaled by WerScale
    all_num,        \* self.all_num
    script_exists,  \* os.path.exists(self.tokenizer_script), file system
    tmp_files,      \* payload files of the bridge still on disk
    in_eval,        \* a tools/eval.py frame was on the stack at construction
    arg_enabled,    \* the constructor's enabled option
    arg_engines,    \* the constructor's engines option
    missing_seen,   \* history: an existence probe has found the script absent
    n_calls,        \* history: __call__ invocations so far
    fed_sum,        \* history: per-item WER fed by cleanly returned batches
    fed_cnt,        \* history: items fed by cleanly returned batches
    clean,          \* history: no __call__ has raised since the last reset
    finals,         \* history: the kinds of the last two get_metric returns since
                    \* the last __call__
    last,           \* the operation that has just returned and what it returned,
                    \* until the caller takes it (Idle between operations)
    wer_case,       \* one _calculate_wer evaluation: arguments and result
    tool_case,      \* one run of the tool's tokenize_batch: arguments and result
    sweep           \* one run of eval_all_epochs.py: its inputs, its position
                    \* and what it has launched and logged

vars == <<enabled, engines, wer_totals, wer_samples, all_num, script_exists,
          tmp_files, in_eval, arg_enabled, arg_engines, missing_seen,
          n_calls, fed_sum, fed_cnt, clean, finals, last, wer_case,
          tool_case, sweep>>

\* the variables of the single-function evaluations and of the sweep script
cases == <<wer_case, tool_case, sweep>>

----------------------------------------------------------------------------
(* Bounds of the model. *)

\* __call__ invocations per instance
MaxCalls == 2

\* tokens per sequence handed to a single _calculate_wer evaluation
MaxWerLen == 3

\* texts handed to a single run of the tool's tokenize_batch
MaxToolTexts == 2

(* Program constants. *)

\* self.eps = 1e-5, as 1 / EpsInv
EpsInv == 100000

ValidEngines == <<"newmm", "attacut", "deepcut">>

AllEngines == {"newmm", "attacut", "deepcut"}

----------------------------------------------------------------------------
(* Generic helpers. *)

Range(s) == {s[i] : i \in 1..Len(s)}

Max(a, b) == IF a >= b THEN a ELSE b

Min(a, b) == IF a <= b THEN a ELSE b

RECURSIVE GCD(_, _)
GCD(a, b) == IF b = 0 THEN a ELSE GCD(b, a % b)

LCM(a, b) == (a * b) \div GCD(a, b)

RECURSIVE SeqSum(_)
SeqSum(s) == IF s = <<>> THEN 0 ELSE Head(s) + SeqSum(Tail(s))

\* the exact fraction n / d in lowest terms (n >= 0, d > 0)
Rat(n, d) == LET g == GCD(n, d) IN <<n \div g, d \div g>>

Zero == <<0, 1>>

----------------------------------------------------------------------------
(* The tokenizer plugins.  The segmentation algorithms are external        *)
(* libraries (pythainlp, deepcut), opaque functions text -> token list;    *)
(* three fixed, mutually different segmentations stand for them.           *)

\* the texts a batch item may carry
Texts == {<<"a">>, <<"a", "b">>}

\* one token per character
tokenize_with_newmm(text) == [i \in 1..Len(text) |-> <<text[i]>>]

\* the whole text as one token
tokenize_with_attacut(text) == IF text = <<>> THEN <<>> ELSE <<text>>

\* the first character, then the remainder
tokenize_with_deepcut(text) ==
    IF Len(text) <= 1 THEN tokenize_with_attacut(text)
    ELSE <<<<Head(text)>>, Tail(text)>>

\* engine_funcs[engine](text)
EngineFunc(engine, text) ==
    CASE engine = "newmm" -> tokenize_with_newmm(text)
      [] engine = "attacut" -> tokenize_with_attacut(text)
      [] engine = "deepcut" -> tokenize_with_deepcut(text)

\* the most tokens any engine makes of any text
MaxTokens ==
    LET S == {Len(EngineFunc(e, t)) : e \in AllEngines, t \in Texts}
    IN CHOOSE m \in S : \A x \in S : x <= m

RECURSIVE LcmUpTo(_)
LcmUpTo(n) == IF n <= 1 THEN 1 ELSE LCM(n, LcmUpTo(n - 1))

\* every WER value of the model is a multiple of 1 / WerScale
WerScale == LcmUpTo(Max(MaxTokens, MaxWerLen))

----------------------------------------------------------------------------
(* The external tool, tools/thai_tokenizer.py. *)

\* the inner loop of tokenize_batch: one text, every entry of the engine list
RECURSIVE AppendText(_, _, _)
AppendText(results, text, engs) ==
    IF engs = <<>> THEN results
    ELSE LET engine == Head(engs)
             toks == IF engine \in AllEngines THEN EngineFunc(engine, text)
                     ELSE <<>>
         IN AppendText([results EXCEPT ![engine] = Append(@, toks)],
                       text, Tail(engs))

RECURSIVE TokenizeLoop(_, _, _)
TokenizeLoop(results, texts, engs) ==
    IF texts = <<>> THEN results
    ELSE TokenizeLoop(AppendText(results, Head(texts), engs), Tail(texts), engs)

\* tokenize_batch(texts, engines)
tokenize_batch(texts, engs) ==
    TokenizeLoop([e \in Range(engs) |-> <<>>], texts, engs)

\* ','.join(self.engines): the ids with a separator between them
RECURSIVE JoinEngines(_)
JoinEngines(engs) ==
    IF engs = <<>> THEN <<>>
    ELSE IF Len(engs) = 1 THEN <<Head(engs)>>
    ELSE <<Head(engs), ",">> \o JoinEngines(Tail(engs))

\* [e.strip() for e in args.engines.split(',') if e.strip()]
SplitEngines(arg) == SelectSeq(arg, LAMBDA x : x # ",")

\* main(): the payload written on exit 0
main(texts, enginesArg) ==
    LET parsed == SplitEngines(enginesArg)
        engs == IF parsed = <<>> THEN ValidEngines ELSE parsed
    IN IF texts = <<>> THEN [e \in Range(engs) |-> <<>>]
       ELSE tokenize_batch(texts, engs)

----------------------------------------------------------------------------------------------------------------------------------------
(* The tool as a process: main() run under python, lines 110-164.          *)

\* what may go wrong inside the process: the input file cannot be read or
\* parsed, a tokenizer library cannot be imported, the output file cannot
\* be written to the end
ToolFaults == {"input", "import", "write"}

\* the except handler of main() falling through to a normal exit
tool_exits_zero(texts, enginesArg, fault) ==
    IF fault \in {"input", "write"}
    THEN [exit |-> 0, file |-> IF fault = "write" THEN "partial" ELSE "empty",
          payload |-> <<>>]
    ELSE [exit |-> 0, file |-> "complete",
          payload |-> main(texts, enginesArg)]

\* The exit status, the state of the output file (the bridge created it
\* empty) and, when it is complete, the payload in it.  A tokenizer is
\* imported only when a text is tokenized with a supported engine; its
\* ImportError ends in sys.exit(1) before anything is written.
ToolProcess(texts, enginesArg, fault) ==
    LET parsed == SplitEngines(enginesArg)
        engs == IF parsed = <<>> THEN ValidEngines ELSE parsed
        imports == texts # <<>> /\ \E e \in Range(engs) : e \in AllEngines
    IN CASE fault = "input" ->
              [exit |-> 1, file |-> "empty", payload |-> <<>>]
         [] fault = "import" /\ imports ->
              [exit |-> 1, file |-> "empty", payload |-> <<>>]
         [] fault = "write" ->
              [exit |-> 1, file |-> "partial", payload |-> <<>>]
         [] OTHER ->
              [exit |-> 0, file |-> "complete",
               payload |-> main(texts, enginesArg)]

----------------------------------------------------------------------------
(* The bridge, ThaiWERMetric._tokenize_batch.                              *)
(*                                                                         *)
(* What the external process and the file system do is the environment's   *)
(* choice, an outcome record:                                              *)
(*   tool        the process runs main() to its exit, under a fault of     *)
(*               ToolFaults or none                                        *)
(*   timeout     subprocess.TimeoutExpired                                 *)
(*   exc_dump    json.dump of the request raises, input file created       *)
(*   exc_launch  subprocess.run raises (interpreter not found)             *)
(*   unparseable exit 0, json.load of the payload raises                   *)
(*   missing_id  exit 0, well-formed JSON lacking the victim engine's key  *)
(*   short       exit 0, the victim engine's list one entry short          *)
(* The last three stand for a payload other than the one main() writes.    *)

SimpleKinds == {"timeout", "exc_dump", "exc_launch", "unparseable"}

\* no process is run: the invocation returns before it gets there
NoRun == [kind |-> "none", victim |-> "-"]

\* what a run on these texts may do; a list can be short of the request only
\* if the request is not empty
Outcomes(engs, texts) ==
    [kind : SimpleKinds, victim : {"-"}]
        \cup [kind : {"tool"}, victim : {"none"} \cup ToolFaults]
        \cup [kind : {"missing_id"}, victim : Range(engs)]
        \cup (IF texts = <<>> THEN {}
              ELSE [kind : {"short"}, victim : Range(engs)])

\* the payload found in the output file after exit 0
Payload(out, texts, engs) ==
    LET p == main(texts, JoinEngines(engs))
    IN CASE out.kind = "missing_id" ->
              [e \in (DOMAIN p) \ {out.victim} |-> p[e]]
         [] out.kind = "short" ->
              [p EXCEPT ![out.victim] = SubSeq(@, 1, Len(texts) - 1)]
         [] OTHER -> p

None == [ok |-> FALSE, results |-> <<>>]

\* What one invocation did: probed for the script and found it, launched a
\* process, created and left payload files, opened the output payload; the
\* exit status it saw (-1: none) and the state of the output file; the
\* number of texts it was called on.
Event(probed, found, launched, created, left, parsed, how, exit, file, n) ==
    [probed |-> probed, found |-> found, launched |-> launched,
     created |-> created, left |-> left, parsed |-> parsed, how |-> how,
     exit |-> exit, file |-> file, n |-> n]

\* lines 115-116
BridgeOff(b, texts) ==
    [enabled |-> b.enabled, tmp_files |-> b.tmp_files, ret |-> None,
     ev |-> Event(FALSE, FALSE, 0, 0, 0, FALSE, "off", -1, "none",
                  Len(texts))]

\* the script is found absent without latching the flag
BridgeAbsentNoLatch(b, texts) ==
    [enabled |-> b.enabled, tmp_files |-> b.tmp_files, ret |-> None,
     ev |-> Event(TRUE, FALSE, 0, 0, 0, FALSE, "absent", -1, "none",
                  Len(texts))]

\* lines 118-122
BridgeAbsent(b, texts) ==
    [enabled |-> FALSE, tmp_files |-> b.tmp_files, ret |-> None,
     ev |-> Event(TRUE, FALSE, 0, 0, 0, FALSE, "absent", -1, "none",
                  Len(texts))]

\* a non-zero exit switching the aggregator off
AfterExitLatches(b, texts, t) ==
    IF t.exit # 0
    THEN [enabled |-> FALSE, tmp_files |-> b.tmp_files + 2,
          ret |-> None,
          ev |-> Event(TRUE, TRUE, 1, 2, 2, FALSE, "nonzero", t.exit,
                       t.file, Len(texts))]
    ELSE [enabled |-> b.enabled, tmp_files |-> b.tmp_files,
          ret |-> [ok |-> TRUE, results |-> t.payload],
          ev |-> Event(TRUE, TRUE, 1, 2, 0, TRUE, "ok", t.exit, t.file,
                       Len(texts))]

\* lines 147-167 with the process run to its exit: the exit status is
\* looked at first, the payload is loaded only after exit 0
AfterExit(b, texts, t) ==
    IF t.exit # 0
    THEN [enabled |-> b.enabled, tmp_files |-> b.tmp_files + 2,
          ret |-> None,
          ev |-> Event(TRUE, TRUE, 1, 2, 2, FALSE, "nonzero", t.exit,
                       t.file, Len(texts))]
    ELSE [enabled |-> b.enabled, tmp_files |-> b.tmp_files,
          ret |-> [ok |-> TRUE, results |-> t.payload],
          ev |-> Event(TRUE, TRUE, 1, 2, 0, TRUE, "ok", t.exit, t.file,
                       Len(texts))]

\* lines 124-174: the try block and its handlers
BridgeRun(b, engs, texts, out) ==
    CASE out.kind = "exc_dump" ->
           [enabled |-> b.enabled, tmp_files |-> b.tmp_files + 1,
            ret |-> None,
            ev |-> Event(TRUE, TRUE, 0, 1, 1, FALSE, out.kind, -1, "none",
                         Len(texts))]
      [] out.kind = "exc_launch" ->
           [enabled |-> b.enabled, tmp_files |-> b.tmp_files + 2,
            ret |-> None,
            ev |-> Event(TRUE, TRUE, 0, 2, 2, FALSE, out.kind, -1, "empty",
                         Len(texts))]
      [] out.kind = "timeout" ->
           [enabled |-> b.enabled, tmp_files |-> b.tmp_files + 2,
            ret |-> None,
            ev |-> Event(TRUE, TRUE, 1, 2, 2, FALSE, out.kind, -1,
                         "partial", Len(texts))]
      [] out.kind = "tool" ->
           AfterExit(b, texts,
                     ToolProcess(texts, JoinEngines(engs), out.victim))
      [] out.kind = "unparseable" ->
           [enabled |-> b.enabled, tmp_files |-> b.tmp_files + 2,
            ret |-> None,
            ev |-> Event(TRUE, TRUE, 1, 2, 2, TRUE, out.kind, 0, "foreign",
                         Len(texts))]
      [] OTHER ->
           [enabled |-> b.enabled, tmp_files |-> b.tmp_files,
            ret |-> [ok |-> TRUE, results |-> Payload(out, texts, engs)],
            ev |-> Event(TRUE, TRUE, 1, 2, 0, TRUE, out.kind, 0, "foreign",
                         Len(texts))]

\* b: [enabled, tmp_files]; exists: os.path.exists(self.tokenizer_script).
\* Returns enabled and tmp_files as the invocation leaves them, ret (None or
\* the parsed payload) and ev.
_tokenize_batch(b, engs, texts, exists, out) ==
    IF ~b.enabled THEN BridgeOff(b, texts)
    ELSE IF ~exists THEN BridgeAbsent(b, texts)
    ELSE BridgeRun(b, engs, texts, out)

----------------------------------------------------------------------------
(* ThaiWERMetric._calculate_wer *)

\* Levenshtein.distance(a, b) on token lists (rapidfuzz)
RECURSIVE Levenshtein(_, _)
Levenshtein(a, b) ==
    IF a = <<>> THEN Len(b)
    ELSE IF b = <<>> THEN Len(a)
    ELSE IF Head(a) = Head(b) THEN Levenshtein(Tail(a), Tail(b))
    ELSE 1 + Min(Levenshtein(Tail(a), Tail(b)),
                 Min(Levenshtein(Tail(a), b), Levenshtein(a, Tail(b))))

\* the distance divided by the length of the prediction
wer_over_pred_len(pred_tokens, target_tokens) ==
    IF Len(target_tokens) = 0
    THEN (IF Len(pred_tokens) = 0 THEN 0 ELSE WerScale)
    ELSE (Levenshtein(pred_tokens, target_tokens) * WerScale)
             \div Max(1, Len(pred_tokens))

\* the WER of one item, times WerScale
_calculate_wer(pred_tokens, target_tokens) ==
    IF Len(target_tokens) = 0
    THEN (IF Len(pred_tokens) = 0 THEN 0 ELSE WerScale)
    ELSE (Levenshtein(pred_tokens, target_tokens) * WerScale)
             \div Len(target_tokens)

----------------------------------------------------------------------------
(* ThaiWERMetric.__call__, get_metric, reset *)

\* wer_sum / (all_num + eps), wer_sum scaled by WerScale
DivEps(wer_sum, num) == Rat(wer_sum * EpsInv, WerScale * (num * EpsInv + 1))

\* total / (k * (all_num + eps))
DivEpsBy(total, k, num) ==
    Rat(total * EpsInv, WerScale * k * (num * EpsInv + 1))

RECURSIVE SetSum(_, _)
SetSum(f, S) ==
    IF S = {} THEN 0
    ELSE LET x == CHOOSE y \in S : TRUE IN f[x] + SetSum(f, S \ {x})

\* {f"wer_{eng}": 0.0 for eng in self.engines}; result["wer_avg"] = 0.0
ZeroResult(engs) == [wer |-> [e \in Range(engs) |-> Zero], avg |-> Zero]

\* [text for text, _ in pairs]
ExtractTexts(pairs) == [i \in 1..Len(pairs) |-> pairs[i][1]]

\* for i in range(all_num): one tokenizer's items.  A missing key or a short
\* list raises (KeyError, IndexError) with the samples appended so far kept.
RECURSIVE ItemLoop(_, _, _, _, _, _, _)
ItemLoop(samples, tokenizer, i, num, P, L, wer_sum) ==
    IF i > num THEN [samples |-> samples, wer_sum |-> wer_sum, err |-> FALSE]
    ELSE IF \/ tokenizer \notin DOMAIN P
            \/ i > Len(P[tokenizer])
            \/ tokenizer \notin DOMAIN L
            \/ i > Len(L[tokenizer])
    THEN [samples |-> samples, wer_sum |-> wer_sum, err |-> TRUE]
    ELSE LET wer == _calculate_wer(P[tokenizer][i], L[tokenizer][i])
         IN ItemLoop([samples EXCEPT ![tokenizer] = Append(@, wer)],
                     tokenizer, i + 1, num, P, L, wer_sum + wer)

\* for tokenizer in self.engines.  st: [totals, samples, batch, err], batch
\* the wer_sum behind each batch_wer[tokenizer] set so far.
RECURSIVE EngineLoop(_, _, _, _, _)
EngineLoop(st, engs, num, P, L) ==
    IF engs = <<>> THEN st
    ELSE LET tokenizer == Head(engs)
             r == ItemLoop(st.samples, tokenizer, 1, num, P, L, 0)
         IN IF r.err
            THEN [st EXCEPT !.samples = r.samples, !.err = TRUE]
            ELSE EngineLoop(
                   [totals |-> [st.totals EXCEPT ![tokenizer] = @ + r.wer_sum],
                    samples |-> r.samples,
                    batch |-> (tokenizer :> r.wer_sum) @@ st.batch,
                    err |-> FALSE],
                   Tail(engs), num, P, L)

\* the quotient taken by all_num alone: a batch of no items divides by zero
score_without_eps(totals, samples, num_before, engs, preds, P, L) ==
    LET num == Len(preds)
        st == EngineLoop([totals |-> totals, samples |-> samples,
                          batch |-> <<>>, err |-> FALSE], engs, num, P, L)
    IN IF st.err \/ num = 0
       THEN [totals |-> st.totals, samples |-> st.samples,
             all_num |-> num_before, raised |-> TRUE,
             wer |-> <<>>, avg |-> Zero]
       ELSE [totals |-> st.totals, samples |-> st.samples,
             all_num |-> num_before + num, raised |-> FALSE,
             wer |-> [e \in Range(engs) |-> DivEps(st.batch[e], num)],
             avg |-> DivEpsBy(SetSum(st.batch, DOMAIN st.batch),
                              Len(engs), num)]

\* lines 235-264 of __call__, after both bridge invocations returned a payload
Score(totals, samples, num_before, engs, preds, P, L) ==
    LET num == Len(preds)
        st == EngineLoop([totals |-> totals, samples |-> samples,
                          batch |-> <<>>, err |-> FALSE], engs, num, P, L)
    IN IF st.err
       THEN [totals |-> st.totals, samples |-> st.samples,
             all_num |-> num_before, raised |-> TRUE,
             wer |-> <<>>, avg |-> Zero]
       ELSE [totals |-> st.totals, samples |-> st.samples,
             all_num |-> num_before + num, raised |-> FALSE,
             wer |-> [e \in Range(engs) |-> DivEps(st.batch[e], num)],
             avg |-> IF engs # <<>>
                     THEN DivEpsBy(SetSum(st.batch, DOMAIN st.batch),
                                   Len(engs), num)
                     ELSE Zero]

\* reset(): the counters of every supported engine
ResetTotals == [e \in AllEngines |-> 0]

ResetSamples == [e \in AllEngines |-> <<>>]

\* sum(self.wer_totals[eng] for eng in self.engines)
RECURSIVE TotalsOver(_, _)
TotalsOver(totals, engs) ==
    IF engs = <<>> THEN 0
    ELSE totals[Head(engs)] + TotalsOver(totals, Tail(engs))

\* what get_metric returns
MetricResult(en, totals, num, engs) ==
    IF ~en \/ num = 0 THEN ZeroResult(engs)
    ELSE [wer |-> [e \in Range(engs) |-> DivEps(totals[e], num)],
          avg |-> IF engs # <<>>
                  THEN DivEpsBy(TotalsOver(totals, engs), Len(engs), num)
                  ELSE Zero]

----------------------------------------------------------------------------
(* Construction, ThaiWERMetric.__init__ *)

EngArg(given, list) == [given |-> given, list |-> list]

\* the constructor calls drawn on: the engines option (None, or a list that
\* may hold unsupported and repeated ids), the enabled option, and whether a
\* tools/eval.py frame is on the stack
CtorArgs ==
    [engines : {EngArg(FALSE, <<>>)}, enabled : BOOLEAN, in_eval : BOOLEAN]
      \cup [engines : {EngArg(TRUE, <<"newmm", "newmm">>)},
            enabled : {TRUE}, in_eval : BOOLEAN]
      \cup [engines : {EngArg(TRUE, <<"bogus", "deepcut", "attacut">>)},
            enabled : BOOLEAN, in_eval : {TRUE}]
      \cup [engines : {EngArg(TRUE, <<"bogus">>), EngArg(TRUE, <<>>)},
            enabled : {TRUE}, in_eval : {FALSE}]

\* the given list taken as it is
engines_unfiltered(arg) ==
    IF ~arg.given \/ arg.list = <<>> THEN ValidEngines ELSE arg.list

\* lines 58-66
InitEngines(arg) ==
    IF ~arg.given THEN ValidEngines
    ELSE LET kept == SelectSeq(arg.list, LAMBDA e : e \in Range(ValidEngines))
         IN IF kept = <<>> THEN ValidEngines ELSE kept

\* the gate left out: the enabled option stands
check_ignores_stack(en, is_eval) == en

\* the gate deciding alone: the flag is set whenever the frame is found
check_overrides_option(en, is_eval) == is_eval

\* self.enabled = enabled, then _check_if_eval_context()
_check_if_eval_context(en, is_eval) == IF ~is_eval THEN FALSE ELSE en

NoResult == [wer |-> <<>>, avg |-> Zero]

Idle == [op |-> "idle", kind |-> "none", res |-> NoResult, bridge |-> <<>>,
         aligned |-> <<>>, npreds |-> 0, nlabels |-> 0]

\* no single-function evaluation is under way
NoCase == [done |-> FALSE]

\* ThaiWERMetric(engines=..., enabled=...): the instance after __init__
Construct ==
    /\ \E c \in CtorArgs :
          /\ arg_engines = c.engines
          /\ arg_enabled = c.enabled
          /\ in_eval = c.in_eval
    /\ script_exists \in BOOLEAN
    /\ engines = InitEngines(arg_engines)
    /\ enabled = _check_if_eval_context(arg_enabled, in_eval)
    /\ wer_totals = ResetTotals
    /\ wer_samples = ResetSamples
    /\ all_num = 0
    /\ tmp_files = 0
    /\ missing_seen = FALSE
    /\ n_calls = 0
    /\ fed_sum = [e \in AllEngines |-> 0]
    /\ fed_cnt = 0
    /\ clean = TRUE
    /\ finals = <<>>
    /\ last = Idle

Init ==
    /\ Construct
    /\ wer_case = NoCase
    /\ tool_case = NoCase
    /\ sweep = NoCase

----------------------------------------------------------------------------
(* The operations. *)

\* a batch side: (text, aux) pairs; aux is carried and never read
Items == {<<t, "-">> : t \in Texts}

\* the lengths a batch side may have
BatchLens == {0, 1}

Batches == UNION {[1..n -> Items] : n \in BatchLens}

\* the pairs a batch really holds, and their WER under one engine
RECURSIVE TrueWerSum(_, _, _, _)
TrueWerSum(e, ptexts, ltexts, i) ==
    IF i > Min(Len(ptexts), Len(ltexts)) THEN 0
    ELSE _calculate_wer(EngineFunc(e, ptexts[i]), EngineFunc(e, ltexts[i]))
             + TrueWerSum(e, ptexts, ltexts, i + 1)

\* a payload answers its request: one entry per text under every id it
\* holds, entry i the tokenization of text i
Aligned(ret, texts) ==
    ret.ok =>
      \A e \in DOMAIN ret.results :
         /\ Len(ret.results[e]) = Len(texts)
         /\ \A i \in 1..Len(texts) :
               ret.results[e][i] =
                  (IF e \in AllEngines THEN EngineFunc(e, texts[i]) ELSE <<>>)

\* only the prediction side is looked at
PredFailed(ret1, ret2) == ~ret1.ok

\* line 230: pred_tokenized is None or label_tokenized is None
BridgeFailed(ret1, ret2) == ~ret1.ok \/ ~ret2.ok

\* the reference texts sent first
labels_first(pred_texts, label_texts) == <<label_texts, pred_texts>>

\* lines 227-228: the texts of the first and of the second bridge invocation
BridgeOrder(pred_texts, label_texts) == <<pred_texts, label_texts>>

\* __call__((preds, labels)) while disabled: lines 214-218
CallDisabled(preds, labels) ==
    /\ ~enabled
    /\ last' = [Idle EXCEPT !.op = "call", !.kind = "disabled",
                            !.res = ZeroResult(engines),
                            !.npreds = Len(preds), !.nlabels = Len(labels)]
    /\ UNCHANGED <<enabled, wer_totals, wer_samples, all_num, script_exists,
                   tmp_files, missing_seen, fed_sum, fed_cnt, clean>>

\* __call__((preds, labels)) while enabled: lines 220-264.  out1, out2: what
\* the two external runs do; exists2: whether the script is there when the
\* reference-side invocation looks.
CallEnabled(preds, labels, out1, out2, exists2) ==
    LET pred_texts == ExtractTexts(preds)
        label_texts == ExtractTexts(labels)
        b0 == [enabled |-> enabled, tmp_files |-> tmp_files]
        sent == BridgeOrder(pred_texts, label_texts)
    IN
    \E r1 \in {_tokenize_batch(b0, engines, sent[1], script_exists, out1)} :
    \E r2 \in {_tokenize_batch(r1, engines, sent[2], exists2, out2)} :
    \E sc \in {Score(wer_totals, wer_samples, all_num, engines, preds,
                    r1.ret.results, r2.ret.results)} :
    LET
        rec == [Idle EXCEPT !.op = "call", !.bridge = <<r1.ev, r2.ev>>,
                            !.aligned = <<Aligned(r1.ret, pred_texts),
                                          Aligned(r2.ret, label_texts)>>,
                            !.npreds = Len(preds), !.nlabels = Len(labels)]
    IN /\ enabled
       /\ enabled' = r2.enabled
       /\ tmp_files' = r2.tmp_files
       /\ missing_seen' = (\/ missing_seen
                           \/ r1.ev.how = "absent"
                           \/ r2.ev.how = "absent")
       /\ script_exists' = exists2
       /\ IF BridgeFailed(r1.ret, r2.ret)
          THEN /\ last' = [rec EXCEPT !.kind = "failed",
                                      !.res = ZeroResult(engines)]
               /\ UNCHANGED <<wer_totals, wer_samples, all_num, fed_sum,
                              fed_cnt, clean>>
          ELSE /\ wer_totals' = sc.totals
               /\ wer_samples' = sc.samples
               /\ all_num' = sc.all_num
               /\ last' = [rec EXCEPT
                             !.kind = IF sc.raised THEN "raised" ELSE "scored",
                             !.res = [wer |-> sc.wer, avg |-> sc.avg]]
               /\ IF sc.raised
                  THEN clean' = FALSE /\ UNCHANGED <<fed_sum, fed_cnt>>
                  ELSE /\ fed_sum' =
                            [e \in AllEngines |->
                               IF e \in Range(engines)
                               THEN fed_sum[e]
                                      + TrueWerSum(e, pred_texts, label_texts, 1)
                               ELSE fed_sum[e]]
                       /\ fed_cnt' = fed_cnt + Min(Len(preds), Len(labels))
                       /\ UNCHANGED clean

\* score_batch.  The environment's choices are drawn only where the code
\* consults them: a run's outcome only if the script is found.
__call__ ==
    /\ last = Idle
    /\ n_calls < MaxCalls
    /\ n_calls' = n_calls + 1
    /\ finals' = <<>>
    /\ \E preds \in Batches, labels \in Batches :
          \/ CallDisabled(preds, labels)
          \/ \E exists2 \in BOOLEAN :
             \E out1 \in (IF script_exists
                          THEN Outcomes(engines, ExtractTexts(preds))
                          ELSE {NoRun}) :
             \E out2 \in (IF script_exists /\ exists2
                          THEN Outcomes(engines, ExtractTexts(labels))
                          ELSE {NoRun}) :
                CallEnabled(preds, labels, out1, out2, exists2)
    /\ UNCHANGED <<engines, in_eval, arg_enabled, arg_engines>>
    /\ UNCHANGED cases

\* what a reset() found: sums, a count or samples to clear, or none
ResetKind ==
    IF all_num > 0 \/ (\E e \in AllEngines :
                          wer_totals[e] > 0 \/ wer_samples[e] # <<>>)
    THEN "cleared" ELSE "empty"

\* reset() setting the flag again
reset_reenables ==
    /\ last = Idle
    /\ enabled' = TRUE
    /\ wer_totals' = ResetTotals
    /\ wer_samples' = ResetSamples
    /\ all_num' = 0
    /\ fed_sum' = [e \in AllEngines |-> 0]
    /\ fed_cnt' = 0
    /\ clean' = TRUE
    /\ last' = [Idle EXCEPT !.op = "reset", !.kind = ResetKind]
    /\ UNCHANGED <<engines, script_exists, tmp_files, in_eval, arg_enabled,
                   arg_engines, missing_seen, n_calls, finals>>
    /\ UNCHANGED cases

\* reset() leaving the retained samples in place
reset_keeps_samples ==
    /\ last = Idle
    /\ wer_totals' = ResetTotals
    /\ wer_samples' = wer_samples
    /\ all_num' = 0
    /\ fed_sum' = [e \in AllEngines |-> 0]
    /\ fed_cnt' = 0
    /\ clean' = TRUE
    /\ last' = [Idle EXCEPT !.op = "reset", !.kind = ResetKind]
    /\ UNCHANGED <<enabled, engines, script_exists, tmp_files, in_eval,
                   arg_enabled, arg_engines, missing_seen, n_calls, finals>>
    /\ UNCHANGED cases

\* reset(): lines 293-298
reset ==
    /\ last = Idle
    /\ wer_totals' = ResetTotals
    /\ wer_samples' = ResetSamples
    /\ all_num' = 0
    /\ fed_sum' = [e \in AllEngines |-> 0]
    /\ fed_cnt' = 0
    /\ clean' = TRUE
    /\ last' = [Idle EXCEPT !.op = "reset", !.kind = ResetKind]
    /\ UNCHANGED <<enabled, engines, script_exists, tmp_files, in_eval,
                   arg_enabled, arg_engines, missing_seen, n_calls, finals>>
    /\ UNCHANGED cases

\* get_metric() with the reset() of its early-return path left out
get_metric_keeps_on_zero ==
    /\ last = Idle
    /\ IF ~enabled \/ all_num = 0
       THEN UNCHANGED <<wer_totals, wer_samples, all_num>>
       ELSE /\ wer_totals' = ResetTotals
            /\ wer_samples' = ResetSamples
            /\ all_num' = 0
    /\ fed_sum' = [e \in AllEngines |-> 0]
    /\ fed_cnt' = 0
    /\ clean' = TRUE
    /\ finals' = LET k == IF ~enabled \/ all_num = 0 THEN "zeros"
                           ELSE "computed"
                  IN IF Len(finals) < 2 THEN Append(finals, k)
                     ELSE <<finals[2], k>>
    /\ last' = [Idle EXCEPT
                  !.op = "get_metric",
                  !.kind = IF ~enabled \/ all_num = 0 THEN "zeros"
                           ELSE "computed",
                  !.res = MetricResult(enabled, wer_totals, all_num, engines)]
    /\ UNCHANGED <<enabled, engines, script_exists, tmp_files, in_eval,
                   arg_enabled, arg_engines, missing_seen, n_calls>>
    /\ UNCHANGED cases

\* finalize: get_metric(), lines 266-291; both paths end in reset()
get_metric ==
    /\ last = Idle
    /\ wer_totals' = ResetTotals
    /\ wer_samples' = ResetSamples
    /\ all_num' = 0
    /\ fed_sum' = [e \in AllEngines |-> 0]
    /\ fed_cnt' = 0
    /\ clean' = TRUE
    /\ finals' = LET k == IF ~enabled \/ all_num = 0 THEN "zeros"
                           ELSE "computed"
                  IN IF Len(finals) < 2 THEN Append(finals, k)
                     ELSE <<finals[2], k>>
    /\ last' = [Idle EXCEPT
                  !.op = "get_metric",
                  !.kind = IF ~enabled \/ all_num = 0 THEN "zeros"
                           ELSE "computed",
                  !.res = MetricResult(enabled, wer_totals, all_num, engines)]
    /\ UNCHANGED <<enabled, engines, script_exists, tmp_files, in_eval,
                   arg_enabled, arg_engines, missing_seen, n_calls>>
    /\ UNCHANGED cases

\* the caller takes what the operation returned (or catches what it raised)
Return ==
    /\ last # Idle
    /\ last' = Idle
    /\ UNCHANGED <<enabled, engines, wer_totals, wer_samples, all_num,
                   script_exists, tmp_files, in_eval, arg_enabled,
                   arg_engines, missing_seen, n_calls, fed_sum, fed_cnt,
                   clean, finals>>
    /\ UNCHANGED cases

\* the file system: the tokenizer script appears or disappears
EnvScript ==
    /\ last = Idle
    /\ script_exists' = ~script_exists
    /\ UNCHANGED <<enabled, engines, wer_totals, wer_samples, all_num,
                   tmp_files, in_eval, arg_enabled, arg_engines,
                   missing_seen, n_calls, fed_sum, fed_cnt, clean, finals,
                   last>>
    /\ UNCHANGED cases

Next == __call__ \/ get_metric \/ reset \/ Return \/ EnvScript

Spec == Init /\ [][Next]_vars

----------------------------------------------------------------------------
(* _calculate_wer on its own: every pair of token sequences of up to       *)
(* MaxWerLen tokens over a two-token alphabet.                             *)

WerAlphabet == {"x", "y"}

TokenSeqs == UNION {[1..n -> WerAlphabet] : n \in 0..MaxWerLen}

\* the instance the single-function evaluations are made on: the default
\* options, under tools/eval.py, the script in place
DefaultInstance ==
    /\ Construct
    /\ arg_engines = EngArg(FALSE, <<>>)
    /\ arg_enabled
    /\ in_eval
    /\ script_exists

WerInit ==
    /\ DefaultInstance
    /\ wer_case \in [pred : TokenSeqs, ref : TokenSeqs, done : {FALSE},
                     wer : {0}]
    /\ tool_case = NoCase
    /\ sweep = NoCase

\* self._calculate_wer(pred_tokens, label_tokens), line 244
CalcWer ==
    /\ ~wer_case.done
    /\ wer_case' = [wer_case EXCEPT
                      !.done = TRUE,
                      !.wer = _calculate_wer(wer_case.pred, wer_case.ref)]
    /\ UNCHANGED <<enabled, engines, wer_totals, wer_samples, all_num,
                   script_exists, tmp_files, in_eval, arg_enabled,
                   arg_engines, missing_seen, n_calls, fed_sum, fed_cnt,
                   clean, finals, last, tool_case, sweep>>

WerSpec == WerInit /\ [][CalcWer]_vars

----------------------------------------------------------------------------
(* The tool's tokenize_batch on its own: every list of up to MaxToolTexts  *)
(* texts and every engine list of one or two ids, supported or not,        *)
(* repeated or not.                                                        *)

ToolEngineIds == {"newmm", "deepcut", "bogus"}

ToolEngineLists == UNION {[1..n -> ToolEngineIds] : n \in {1, 2}}

ToolTextLists == UNION {[1..n -> Texts] : n \in 0..MaxToolTexts}

ToolInit ==
    /\ DefaultInstance
    /\ wer_case = NoCase
    /\ tool_case \in [texts : ToolTextLists, engines : ToolEngineLists,
                      done : {FALSE}, results : {<<>>}]
    /\ sweep = NoCase

\* results = tokenize_batch(texts, engines), line 154 of the tool
RunTokenizeBatch ==
    /\ ~tool_case.done
    /\ tool_case' = [tool_case EXCEPT
                       !.done = TRUE,
                       !.results = tokenize_batch(tool_case.texts,
                                                  tool_case.engines)]
    /\ UNCHANGED <<enabled, engines, wer_totals, wer_samples, all_num,
                   script_exists, tmp_files, in_eval, arg_enabled,
                   arg_engines, missing_seen, n_calls, fed_sum, fed_cnt,
                   clean, finals, last, wer_case, sweep>>

ToolSpec == ToolInit /\ [][RunTokenizeBatch]_vars

----------------------------------------------------------------------------
(* The checkpoint sweep, eval_all_epochs.py.                               *)
(*                                                                         *)
(* A checkpoint file iter_epoch_<stem>.pdparams is known by its stem, a     *)
(* sequence of characters.  A directory is known by what the pattern of     *)
(* get_epoch_number finds in its name: the digits of the first              *)
(* iter_epoch_<digits>.pdparams occurrence, or nothing.                     *)

\* the most checkpoint files a model directory holds
MaxCkpts == 3

Digits == {"0", "1", "2", "7"}

Stems == {<<"2">>, <<"1", "0">>, <<"0", "2">>, <<"b">>}

DirNames == {<<>>, <<"7">>}

Front(sq) == SubSeq(sq, 1, Len(sq) - 1)

Last(sq) == sq[Len(sq)]

DigitVal(c) == CASE c = "0" -> 0 [] c = "1" -> 1 [] c = "2" -> 2 [] c = "7" -> 7

\* int(match.group(1))
RECURSIVE ToInt(_)
ToInt(ds) == IF ds = <<>> THEN 0 ELSE 10 * ToInt(Front(ds)) + DigitVal(Last(ds))

\* (\d+) between iter_epoch_ and .pdparams
IsDigits(stem) == stem # <<>> /\ \A k \in 1..Len(stem) : stem[k] \in Digits

\* os.path.join(model_dir, "iter_epoch_<stem>.pdparams")
Path(dir, stem) == [dir |-> dir, stem |-> stem]

\* get_epoch_number(filepath): re.search over the whole path, leftmost match
get_epoch_number(filepath) ==
    IF filepath.dir # <<>> THEN ToInt(filepath.dir)
    ELSE IF IsDigits(filepath.stem) THEN ToInt(filepath.stem)
    ELSE 0

\* list.sort(key=get_epoch_number): stable, equal keys keep their order
RECURSIVE InsertStable(_, _)
InsertStable(sorted, x) ==
    IF sorted = <<>> THEN <<x>>
    ELSE IF get_epoch_number(Last(sorted)) <= get_epoch_number(x)
         THEN Append(sorted, x)
         ELSE Append(InsertStable(Front(sorted), x), Last(sorted))

RECURSIVE SortByEpoch(_)
SortByEpoch(files) ==
    IF files = <<>> THEN <<>>
    ELSE InsertStable(SortByEpoch(Front(files)), Last(files))

\* glob.glob(pattern): the matching files, in the order the file system
\* lists them
GlobOrders ==
    {g \in UNION {[1..n -> Stems] : n \in 0..MaxCkpts} :
        \A a, b \in 1..Len(g) : a # b => g[a] # g[b]}

\* the command line and the file system main() finds
SweepInputs ==
    {c \in [model_dir : DirNames, dir_exists : BOOLEAN,
            config_given : BOOLEAN, config_exists : BOOLEAN,
            globbed : GlobOrders] :
        ~c.dir_exists =>
           /\ c.globbed = <<>>
           /\ ~c.config_given => ~c.config_exists}

SweepInit ==
    /\ DefaultInstance
    /\ wer_case = NoCase
    /\ tool_case = NoCase
    /\ \E c \in SweepInputs :
          sweep = [pc |-> "start", model_dir |-> c.model_dir,
                   dir_exists |-> c.dir_exists,
                   config_given |-> c.config_given,
                   config_exists |-> c.config_exists,
                   globbed |-> c.globbed, model_files |-> <<>>, i |-> 1,
                   launched |-> <<>>, failed |-> <<>>,
                   log_written |-> FALSE, log |-> <<>>]

\* lines 68-75: the early return of the config branch
ConfigMissing(c) == ~c.config_given /\ ~c.config_exists

\* main() up to the loop: the three early returns, the sort, the log header
SweepStart ==
    /\ sweep.pc = "start"
    /\ IF \/ ~sweep.dir_exists
          \/ ConfigMissing(sweep)
          \/ sweep.globbed = <<>>
       THEN sweep' = [sweep EXCEPT !.pc = "done"]
       ELSE sweep' =
              [sweep EXCEPT
                 !.pc = "loop",
                 !.model_files =
                    SortByEpoch([k \in 1..Len(sweep.globbed) |->
                                   Path(sweep.model_dir, sweep.globbed[k])]),
                 !.log_written = TRUE,
                 !.log = <<[kind |-> "header"]>>]
    /\ UNCHANGED <<enabled, engines, wer_totals, wer_samples, all_num,
                   script_exists, tmp_files, in_eval, arg_enabled,
                   arg_engines, missing_seen, n_calls, fed_sum, fed_cnt,
                   clean, finals, last, wer_case, tool_case>>

\* one iteration of the loop, lines 110-153; raises: subprocess.run (or the
\* writing of its output) raised an Exception
SweepEval ==
    /\ sweep.pc = "loop"
    /\ sweep.i <= Len(sweep.model_files)
    /\ \E raises \in BOOLEAN :
          LET model_path == sweep.model_files[sweep.i]
              entry == [kind |-> "epoch", model |-> model_path,
                        epoch |-> get_epoch_number(model_path)]
              outcome == [kind |-> IF raises THEN "error" ELSE "output",
                          model |-> model_path]
          IN sweep' = [sweep EXCEPT
                         !.launched = Append(@, model_path),
                         !.failed = IF raises THEN Append(@, model_path)
                                    ELSE @,
                         !.log = @ \o <<entry, outcome>>,
                         !.i = @ + 1]
    /\ UNCHANGED <<enabled, engines, wer_totals, wer_samples, all_num,
                   script_exists, tmp_files, in_eval, arg_enabled,
                   arg_engines, missing_seen, n_calls, fed_sum, fed_cnt,
                   clean, finals, last, wer_case, tool_case>>

\* the loop is over: the log is closed, lines 155-156
SweepEnd ==
    /\ sweep.pc = "loop"
    /\ sweep.i > Len(sweep.model_files)
    /\ sweep' = [sweep EXCEPT !.pc = "done"]
    /\ UNCHANGED <<enabled, engines, wer_totals, wer_samples, all_num,
                   script_exists, tmp_files, in_eval, arg_enabled,
                   arg_engines, missing_seen, n_calls, fed_sum, fed_cnt,
                   clean, finals, last, wer_case, tool_case>>

SweepNext == SweepStart \/ SweepEval \/ SweepEnd

SweepSpec == SweepInit /\ [][SweepNext]_vars

----------------------------------------------------------------------------
(* Properties. *)

\* the invocation handed a payload back to __call__
Returned(ev) == ev.how \in {"ok", "missing_id", "short"}

\* no engine id is configured twice
Distinct == Len(engines) = Cardinality(Range(engines))

AllZero ==
    /\ wer_totals = [e \in AllEngines |-> 0]
    /\ wer_samples = [e \in AllEngines |-> <<>>]
    /\ all_num = 0

RECURSIVE SumOver(_, _)
SumOver(f, S) ==
    IF S = {} THEN 0
    ELSE LET x == CHOOSE y \in S : TRUE IN f[x] + SumOver(f, S \ {x})

\* a score_batch call of an enabled aggregator one of whose two bridge
\* invocations handed no payload back: zeros, nothing raised, sums, count
\* and samples untouched
FailedCallLeavesState ==
    (/\ last'.op = "call"
     /\ enabled
     /\ \E i \in 1..Len(last'.bridge) : ~Returned(last'.bridge[i]))
      => /\ last'.kind = "failed"
         /\ last'.res = ZeroResult(engines)
         /\ UNCHANGED <<wer_totals, wer_samples, all_num>>

\* get_metric answers from the running sums and the running count
FinalizeReflectsSums ==
    last'.res = MetricResult(TRUE, wer_totals, all_num, engines)

(* C1, as stated: in an aggregator constructed enabled, a score_batch call *)
(* one of whose two bridge invocations reports failure (non-zero exit,     *)
(* timeout, caught exception, disabled) returns 0.0 under every key and    *)
(* leaves the running sums, the running count and the retained samples as  *)
(* they were, and a later get_metric answers from those sums (the latter   *)
(* stated for distinct configured engines).                                *)
C1_LaterFinalizeReflects ==
    [][/\ FailedCallLeavesState
       /\ (last'.op = "get_metric" /\ arg_enabled /\ in_eval /\ Distinct)
            => FinalizeReflectsSums]_vars

(* C1, amended: in an enabled aggregator, a score_batch call one of whose  *)
(* two bridge invocations returns no payload returns 0.0 under every       *)
(* wer_<engine> and wer_avg, raises nothing, and leaves the running sums,  *)
(* the running count and the retained samples as they were before the      *)
(* call; a later get_metric answers from those sums unless an invocation   *)
(* has found the script absent, after which it returns 0.0 under every key.*)
C1_FailedBridgeLeavesState ==
    [][/\ FailedCallLeavesState
       /\ (last'.op = "get_metric" /\ arg_enabled /\ in_eval)
            => IF missing_seen THEN last'.res = ZeroResult(engines)
               ELSE FinalizeReflectsSums]_vars

\* a reference-side timeout after an earlier batch left non-zero sums
C1_Witness ==
    /\ last.op = "call"
    /\ last.kind = "failed"
    /\ Returned(last.bridge[1])
    /\ last.bridge[2].how = "timeout"
    /\ all_num > 0
    /\ \E e \in Range(engines) : wer_totals[e] > 0

(* C2: after every bridge invocation, on every exit path, no temporary     *)
(* payload file the bridge created is left on disk.                        *)
C2_NoTempFileRemains == tmp_files = 0

(* C3: after score_batch calls that all returned normally since the last   *)
(* reset, get_metric returns under every configured tokenizer the sum of   *)
(* the per-item WER values fed for it divided by (items fed + eps), and    *)
(* under wer_avg the mean of these values over the configured tokenizers.  *)
C3_FinalizeIsTrueAverage ==
    [][(last'.op = "get_metric" /\ enabled /\ clean)
         => /\ \A e \in Range(engines) :
                  last'.res.wer[e] = DivEps(fed_sum[e], fed_cnt)
            /\ last'.res.avg =
                  DivEpsBy(SumOver(fed_sum, Range(engines)),
                           Cardinality(Range(engines)), fed_cnt)]_vars

(* C4: when get_metric has returned, on every path, every running sum is   *)
(* 0, the running count is 0 and no sample is retained; a get_metric that   *)
(* follows another with no score_batch in between returns all zeros.        *)
C4_FinalizeResets ==
    last.op = "get_metric"
      => /\ AllZero
         /\ Len(finals) = 2 => last.res = ZeroResult(engines)

\* a second get_metric right after one that returned computed averages
C4_Witness ==
    /\ last.op = "get_metric"
    /\ finals = <<"computed", "zeros">>

(* C5: an aggregator constructed with no tools/eval.py frame on the stack  *)
(* never does any bridge work (no existence probe, no payload file, no     *)
(* process), and each of its score_batch and get_metric calls returns 0.0  *)
(* under every key.                                                        *)
C5_OutOfContextNeverBridges ==
    ~in_eval
      => /\ ~enabled
         /\ tmp_files = 0
         /\ ~missing_seen
         /\ last.op = "call"
              => /\ \A i \in 1..Len(last.bridge) :
                       /\ ~last.bridge[i].probed
                       /\ last.bridge[i].launched = 0
                       /\ last.bridge[i].created = 0
                 /\ last.res = ZeroResult(engines)
         /\ last.op = "get_metric" => last.res = ZeroResult(engines)

\* a later non-empty batch, enabled=True given, the script in place
C5_Witness ==
    /\ ~in_eval
    /\ arg_enabled
    /\ script_exists
    /\ last.op = "call"
    /\ last.npreds = 1
    /\ n_calls = MaxCalls

(* C6: once the enabled flag is false it is false ever after.              *)
C6_EnabledLatch == [][~enabled => ~enabled']_vars

\* latched by a missing script; the script is back and a call still
\* returns the disabled zeros
C6_Witness ==
    /\ missing_seen
    /\ script_exists
    /\ ~enabled
    /\ last.op = "call"
    /\ last.kind = "disabled"

(* C7: a bridge invocation that finds the script absent launches nothing,  *)
(* creates no file and returns no payload; no later invocation, in the     *)
(* same batch or in a later one, probes for the script again.              *)
C7_AbsentScriptLatches ==
    [][last'.op = "call"
         => /\ \A i \in 1..Len(last'.bridge) :
                  last'.bridge[i].how = "absent"
                    => /\ last'.bridge[i].launched = 0
                       /\ last'.bridge[i].created = 0
                       /\ last'.kind = "failed"
                       /\ \A j \in (i + 1)..Len(last'.bridge) :
                             ~last'.bridge[j].probed
            /\ missing_seen
                 => \A i \in 1..Len(last'.bridge) : ~last'.bridge[i].probed]_vars

\* the prediction side found the script absent, and it is there again when
\* the reference side of the same batch is invoked
C7_Witness ==
    /\ last.op = "call"
    /\ Len(last.bridge) = 2
    /\ last.bridge[1].how = "absent"
    /\ script_exists

(* C8: an enabled score_batch call whose predictions and references differ *)
(* in number signals an error (stated for distinct configured engines and  *)
(* for the calls both of whose bridge invocations return the tool's own    *)
(* payload).                                                               *)
C8_MismatchRaises ==
    (/\ last.op = "call"
     /\ Distinct
     /\ Len(last.bridge) = 2
     /\ last.bridge[1].how = "ok"
     /\ last.bridge[2].how = "ok"
     /\ last.npreds # last.nlabels)
      => last.kind = "raised"

(* C9: a score_batch call in which a process exits 0 with a malformed      *)
(* payload (unparseable, a configured id missing, a list shorter than the  *)
(* request) raises nothing, returns all zeros and leaves the running sums, *)
(* the running count and the retained samples unchanged (stated for        *)
(* distinct configured engines and as many predictions as references).     *)
C9_MalformedPayloadIsFailure ==
    [][(/\ last'.op = "call"
        /\ Distinct
        /\ last'.npreds = last'.nlabels
        /\ \E i \in 1..Len(last'.bridge) :
              last'.bridge[i].how \in {"unparseable", "missing_id", "short"})
         => /\ last'.kind # "raised"
            /\ last'.res = ZeroResult(engines)
            /\ UNCHANGED <<wer_totals, wer_samples, all_num>>]_vars

(* C10: every payload the tool itself writes, for every configured engine  *)
(* list, holds under each id exactly one token sequence per request text,  *)
(* entry i being the tokenization of text i.                               *)
C10_ResponseAligned ==
    last.op = "call"
      => \A i \in 1..Len(last.bridge) :
            last.bridge[i].how = "ok" => last.aligned[i]

\* the edit distance by rows (Wagner-Fischer): Row(i)[j + 1] is the least
\* number of insertions, deletions and substitutions that turn the first i
\* tokens of a into the first j tokens of b
RECURSIVE EditRow(_, _, _)
EditRow(a, b, i) ==
    IF i = 0 THEN [j \in 1..(Len(b) + 1) |-> j - 1]
    ELSE LET prev == EditRow(a, b, i - 1)
             F[j \in 0..Len(b)] ==
                 IF j = 0 THEN i
                 ELSE Min(Min(prev[j + 1] + 1, F[j - 1] + 1),
                          prev[j] + (IF a[i] = b[j] THEN 0 ELSE 1))
         IN [j \in 1..(Len(b) + 1) |-> F[j - 1]]

EditDistance(a, b) == EditRow(a, b, Len(a))[Len(b) + 1]

(* C11: _calculate_wer(p, r) is the token-level edit distance of p and r   *)
(* divided by len(r) when r is non-empty, 0.0 when both are empty and 1.0  *)
(* when only r is empty; so WER(a, a) = 0.0 for a non-empty a and          *)
(* WER(empty, r) = 1.0 for a non-empty r.                                  *)
C11_WerIsEditDistanceRatio ==
    wer_case.done =>
      LET p == wer_case.pred
          r == wer_case.ref
          w == wer_case.wer
      IN /\ r # <<>> => w * Len(r) = EditDistance(p, r) * WerScale
         /\ (r = <<>> /\ p = <<>>) => w = 0
         /\ (r = <<>> /\ p # <<>>) => w = WerScale
         /\ (p = r /\ p # <<>>) => w = 0
         /\ (p = <<>> /\ r # <<>>) => w = WerScale

\* a one-token prediction against a three-token reference: WER 2/3
C11_Witness ==
    /\ wer_case.done
    /\ Len(wer_case.pred) = 1
    /\ Len(wer_case.ref) = 3
    /\ 3 * wer_case.wer = 2 * WerScale

\* what a score_batch call that returned added to the sums and the count:
\* the per-item WER of its pairs and their number if it scored, nothing else
CallAdds ==
    IF last'.kind = "scored"
    THEN /\ \A e \in Range(engines) :
               wer_totals'[e] - wer_totals[e] = fed_sum'[e] - fed_sum[e]
         /\ \A e \in AllEngines \ Range(engines) :
               wer_totals'[e] = wer_totals[e]
         /\ all_num' - all_num = last'.npreds
         /\ fed_cnt' - fed_cnt = last'.npreds
    ELSE UNCHANGED <<wer_totals, all_num>>

(* C12: a score_batch call that returns never lowers a running sum or the  *)
(* running count: it adds to each configured tokenizer's sum exactly the   *)
(* per-item WER sum of the batch and to the count its number of items, and *)
(* adds nothing when a bridge invocation failed or the aggregator is       *)
(* disabled.                                                               *)
C12_CallIsAdditive ==
    [][(last'.op = "call" /\ last'.kind \in {"scored", "failed", "disabled"})
         => /\ \A e \in AllEngines : wer_totals'[e] >= wer_totals[e]
            /\ all_num' >= all_num
            /\ CallAdds]_vars

(* C13: reset(), in any state and with any configured engine subset,       *)
(* leaves every supported tokenizer's running sum 0 and retained samples   *)
(* empty and the running count 0, and changes neither the enabled flag nor *)
(* the configured engine list.                                             *)
C13_ResetClearsAll ==
    [][last'.op = "reset"
         => /\ \A e \in AllEngines :
                  wer_totals'[e] = 0 /\ wer_samples'[e] = <<>>
            /\ DOMAIN wer_totals' = AllEngines
            /\ DOMAIN wer_samples' = AllEngines
            /\ all_num' = 0
            /\ UNCHANGED <<enabled, engines>>]_vars

\* reset() of an enabled aggregator configured with two of the three
\* engines, called with sums and samples accumulated
C13_Witness ==
    /\ last.op = "reset"
    /\ last.kind = "cleared"
    /\ enabled
    /\ engines = <<"deepcut", "attacut">>

\* the invocation ended in a timeout or a non-zero exit
SoftFailed(ev) == ev.how \in {"timeout", "nonzero"}

(* C14: a bridge invocation that times out or whose process exits non-zero *)
(* launches the process exactly once and fails its call only: the flag     *)
(* stays set, the reference-side invocation of the same call probes and,   *)
(* unless the script is gone or an exception precedes the launch, launches *)
(* again, the call returns the failure zeros, and the aggregator is        *)
(* enabled after the call unless an invocation found the script absent.    *)
C14_SoftFailureDoesNotLatch ==
    [][(last'.op = "call" /\ enabled
          /\ \E i \in 1..Len(last'.bridge) : SoftFailed(last'.bridge[i]))
         => /\ \A i \in 1..Len(last'.bridge) :
                  SoftFailed(last'.bridge[i]) => last'.bridge[i].launched = 1
            /\ SoftFailed(last'.bridge[1])
                 => /\ last'.bridge[2].probed
                    /\ last'.bridge[2].how
                           \notin {"absent", "exc_dump", "exc_launch"}
                         => last'.bridge[2].launched = 1
            /\ last'.kind = "failed"
            /\ enabled' = (\A i \in 1..Len(last'.bridge) :
                              last'.bridge[i].how # "absent")]_vars

\* the prediction side timed out, the reference side of the same call ran
\* to a payload, and the aggregator is still enabled
C14_Witness ==
    /\ last.op = "call"
    /\ Len(last.bridge) = 2
    /\ last.bridge[1].how = "timeout"
    /\ last.bridge[2].how = "ok"
    /\ last.bridge[2].launched = 1
    /\ enabled

\* the process was main() of the tool, run to its exit
RanTool(ev) == ev.how \in {"ok", "nonzero"}

(* C15: the tool exits 0 only with the output payload completely written   *)
(* and exits non-zero, with no complete payload written, when the input is *)
(* unreadable, a tokenizer library it needs cannot be imported or the      *)
(* write fails; the bridge opens the output payload only after exit        *)
(* status 0, never after a non-zero exit or a timeout.                     *)
C15_ExitStatusGuardsPayload ==
    last.op = "call" =>
      \A i \in 1..Len(last.bridge) :
         LET ev == last.bridge[i]
         IN /\ RanTool(ev) => (ev.exit = 0 <=> ev.file = "complete")
            /\ ev.how = "nonzero" => ev.exit # 0 /\ ev.file # "complete"
            /\ ev.parsed => ev.exit = 0
            /\ ev.how \in {"nonzero", "timeout"} => ~ev.parsed

\* the reference-side process failed while writing and exited non-zero: a
\* partial output file the bridge did not open
C15_Witness ==
    /\ last.op = "call"
    /\ Len(last.bridge) = 2
    /\ last.bridge[1].how = "ok"
    /\ last.bridge[2].how = "nonzero"
    /\ last.bridge[2].file = "partial"
    /\ ~last.bridge[2].parsed

\* the list with every entry outside the supported set dropped, order and
\* repetitions kept
RECURSIVE DropUnsupported(_)
DropUnsupported(list) ==
    IF list = <<>> THEN <<>>
    ELSE IF Head(list) \in AllEngines
         THEN <<Head(list)>> \o DropUnsupported(Tail(list))
         ELSE DropUnsupported(Tail(list))

(* C16: the configured engine list is the given list with every entry      *)
(* outside {newmm, attacut, deepcut} dropped, or the full supported list   *)
(* if none was given or none survives; in every reachable state it is      *)
(* non-empty and holds supported ids only.                                 *)
C16_EnginesFiltered ==
    /\ engines # <<>>
    /\ Range(engines) \subseteq AllEngines
    /\ engines = IF arg_engines.given
                      /\ DropUnsupported(arg_engines.list) # <<>>
                 THEN DropUnsupported(arg_engines.list)
                 ELSE <<"newmm", "attacut", "deepcut">>

\* an unsupported id dropped from the given list, two kept, seen after a
\* scored batch
C16_Witness ==
    /\ arg_engines.given
    /\ "bogus" \in Range(arg_engines.list)
    /\ engines = <<"deepcut", "attacut">>
    /\ last.op = "call"
    /\ last.kind = "scored"

(* C17: the enabled flag left by construction is the conjunction of the    *)
(* enabled option and the call-context gate: until a probe finds the       *)
(* script absent the flag equals (option and gate), and it is never set    *)
(* with the option off or outside tools/eval.py.                           *)
C17_EnabledIsOptionAndGate ==
    /\ ~missing_seen => (enabled <=> (arg_enabled /\ in_eval))
    /\ enabled => (arg_enabled /\ in_eval)

\* enabled=False given under tools/eval.py: a call returns the disabled
\* zeros
C17_Witness ==
    /\ ~arg_enabled
    /\ in_eval
    /\ ~enabled
    /\ last.op = "call"
    /\ last.kind = "disabled"

\* what the claim says of one finished run: empty sequences, one per text,
\* under every unsupported id, and the supported ids as in the same request
\* without the unsupported ones
UnsupportedGivesEmpties ==
    LET texts == tool_case.texts
        engs == tool_case.engines
        res == tool_case.results
        rest == DropUnsupported(engs)
    IN /\ DOMAIN res = Range(engs)
       /\ \A e \in Range(engs) \ AllEngines :
             res[e] = [i \in 1..Len(texts) |-> <<>>]
       /\ \A e \in Range(engs) \cap AllEngines :
             res[e] = tokenize_batch(texts, rest)[e]

(* C18: tokenize_batch given an engine id outside the supported set does   *)
(* not fail: its response maps that id to one empty token sequence per     *)
(* input text, and the sequences of the supported ids of the same request  *)
(* are what they are without it.                                           *)
C18_UnsupportedIdGivesEmpties ==
    (tool_case.done /\ Range(tool_case.engines) \ AllEngines # {})
      => UnsupportedGivesEmpties

\* what the batch of a scored call fed under each engine
BatchFed == [e \in AllEngines |-> fed_sum'[e] - fed_sum[e]]

(* C19: a score_batch call that scores returns exactly one wer_<id> per    *)
(* configured tokenizer, each the per-item WER sum of the batch divided by *)
(* (item count + eps), and under wer_avg the unweighted mean of these      *)
(* values over the configured tokenizers.                                  *)
C19_BatchAverageIsMean ==
    [][(last'.op = "call" /\ last'.kind = "scored")
         => /\ DOMAIN last'.res.wer = Range(engines)
            /\ \A e \in Range(engines) :
                  last'.res.wer[e] = DivEps(BatchFed[e], last'.npreds)
            /\ last'.res.avg =
                  DivEpsBy(SumOver(BatchFed, Range(engines)),
                           Cardinality(Range(engines)), last'.npreds)]_vars

(* C20: an enabled score_batch call makes exactly two bridge invocations,  *)
(* the first on the prediction texts and the second on the reference       *)
(* texts, each launching at most one process, and touches no running sum,  *)
(* count or sample unless both have handed a payload back.                 *)
C20_TwoInvocationsInOrder ==
    [][(last'.op = "call" /\ enabled)
         => /\ Len(last'.bridge) = 2
            /\ last'.bridge[1].n = last'.npreds
            /\ last'.bridge[2].n = last'.nlabels
            /\ \A i \in 1..2 : last'.bridge[i].launched <= 1
            /\ (\E i \in 1..2 : ~Returned(last'.bridge[i]))
                 => UNCHANGED <<wer_totals, wer_samples, all_num>>]_vars

\* one prediction and no reference: the first invocation ran on one text
\* to a payload, the second ran on none and timed out
C20_Witness ==
    /\ last.op = "call"
    /\ Len(last.bridge) = 2
    /\ last.npreds = 1
    /\ last.nlabels = 0
    /\ last.bridge[1].how = "ok"
    /\ last.bridge[1].launched = 1
    /\ last.bridge[2].how = "timeout"
    /\ last.bridge[2].launched = 1

\* both bridge invocations of the call ran the tool to exit 0 and loaded
\* its payload
BothTokenized(rec) ==
    /\ Len(rec.bridge) = 2
    /\ \A i \in 1..2 : rec.bridge[i].how = "ok"

\* both bridge invocations of the call handed a payload back
BothReturned(rec) ==
    /\ Len(rec.bridge) = 2
    /\ \A i \in 1..2 : Returned(rec.bridge[i])

(* C21: an enabled score_batch call with no prediction and no reference    *)
(* whose two bridge invocations hand a payload back raises nothing,        *)
(* returns 0.0 under every wer_<id> and under wer_avg and leaves the       *)
(* running sums, the running count and the retained samples as they were;  *)
(* the tool answers the empty texts list with exit 0 and an empty list     *)
(* under every requested engine.                                           *)
C21_EmptyBatchScoresZero ==
    [][(/\ last'.op = "call"
        /\ enabled
        /\ last'.npreds = 0
        /\ last'.nlabels = 0
        /\ BothReturned(last'))
         => /\ last'.kind = "scored"
            /\ last'.res = ZeroResult(engines)
            /\ UNCHANGED <<wer_totals, wer_samples, all_num>>
            /\ BothTokenized(last') => last'.aligned = <<TRUE, TRUE>>
            /\ LET t == ToolProcess(<<>>, JoinEngines(engines), "none")
               IN /\ t.exit = 0
                  /\ t.payload = [e \in Range(engines) |-> <<>>]]_vars

\* an empty batch scored after a batch of one item: the count of one is
\* still there
C21_Witness ==
    /\ last.op = "call"
    /\ last.kind = "scored"
    /\ last.npreds = 0
    /\ last.nlabels = 0
    /\ BothTokenized(last)
    /\ all_num = 1
    /\ \E e \in Range(engines) : wer_totals[e] > 0

\* the sums, the samples and the count agree for every configured tokenizer
SumsMatchSamples ==
    \A e \in Range(engines) :
       /\ wer_totals[e] = SeqSum(wer_samples[e])
       /\ Len(wer_samples[e]) = all_num

(* C22: after every score_batch, get_metric or reset call that returns     *)
(* normally, for every configured tokenizer the running sum equals the sum *)
(* of its retained samples and the number of its retained samples equals   *)
(* the running count.                                                      *)
C22_SumsMatchSamples ==
    (last.op \in {"call", "get_metric", "reset"} /\ last.kind # "raised")
      => SumsMatchSamples

\* the epoch number a checkpoint's file name holds, 0 if it holds none
FileEpoch(stem) == IF IsDigits(stem) THEN ToInt(stem) ELSE 0

\* one evaluation launched for each file found, none twice
OnePerCheckpoint ==
    /\ Len(sweep.launched) = Len(sweep.globbed)
    /\ \A k \in 1..Len(sweep.globbed) :
          Cardinality({j \in 1..Len(sweep.launched) :
                          sweep.launched[j].stem = sweep.globbed[k]}) = 1

\* the launches in non-decreasing order of the file names' epoch numbers
InEpochOrder ==
    \A j, k \in 1..Len(sweep.launched) :
       j < k => FileEpoch(sweep.launched[j].stem)
                   <= FileEpoch(sweep.launched[k].stem)

\* every launch that raised has its error line in the log
FailuresLogged ==
    \A k \in 1..Len(sweep.failed) :
       \E j \in 1..Len(sweep.log) :
          sweep.log[j] = [kind |-> "error", model |-> sweep.failed[k]]

\* the model directory, the config file or every checkpoint is missing
SweepMissing ==
    \/ ~sweep.dir_exists
    \/ ~sweep.config_exists
    \/ sweep.globbed = <<>>

(* C23: a finished sweep has launched exactly one evaluation per checkpoint *)
(* file found, in non-decreasing order of the epoch number in the file      *)
(* name, a launch that raised is logged and the later ones were still       *)
(* launched; with the model directory, the config file or every checkpoint  *)
(* missing, nothing was launched and no log file was written.               *)
C23_SweepEvaluatesEachInOrder ==
    sweep.pc = "done" =>
       IF SweepMissing
       THEN sweep.launched = <<>> /\ ~sweep.log_written
       ELSE OnePerCheckpoint /\ InEpochOrder /\ FailuresLogged

====
